---- MODULE Spec2Model ----
(***************************************************************************)
(* Model of the valuation engine of rooted-valuation-backend:              *)
(*   src/app.py        three-rail engine behind /api/valuate               *)
(*   src/valuation.py  the simple (50/50) variant                          *)
(*                                                                         *)
(* Number representation.  The code computes in binary floating point.     *)
(* The model computes in decimal fixed point:                              *)
(*   - a fraction (margin, rate, weight, adjustment) is an integer number  *)
(*     of basis points, 1.0 = BP;                                          *)
(*   - a monetary figure is an integer number of cents; the inputs are     *)
(*     whole dollars;                                                      *)
(*   - a product or quotient is rounded toward zero to the unit (MulDiv).  *)
(* A Python value that may be None, a number or text is a record           *)
(* tagged by its type: [t |-> "none"], [t |-> "int" | "float", v |-> n] or *)
(* [t |-> "str", s |-> text]; text is a sequence of one-character strings. *)
(***************************************************************************)
EXTENDS Integers, Sequences, FiniteSets, TLC

VARIABLES entry, pc, args, loc, frame, ret

vars == <<entry, pc, args, loc, frame, ret>>

-----------------------------------------------------------------------------
(* Fixed-point arithmetic *)

\* one (1.0) in basis points
BP == 100 * 100

\* one dollar in cents
Dollar == 10 * 10

Abs(x) == IF x < 0 THEN -x ELSE x

Sgn(x) == IF x < 0 THEN -1 ELSE IF x > 0 THEN 1 ELSE 0

Max(a, b) == IF a >= b THEN a ELSE b

Min(a, b) == IF a <= b THEN a ELSE b

\* a * b / c for a, b >= 0 and c > 0, rounded down, without forming a * b
MulDivNat(a, b, c) == (a \div c) * b + ((a % c) * b) \div c

\* a * b / c rounded toward zero, c # 0
MulDiv(a, b, c) == Sgn(a) * Sgn(b) * Sgn(c) * MulDivNat(Abs(a), Abs(b), Abs(c))

\* base ** n for a fixed-point base (scale BP), n >= 0
RECURSIVE PowFx(_, _)
PowFx(base, n) == IF n = 0 THEN BP ELSE MulDiv(PowFx(base, n - 1), base, BP)

-----------------------------------------------------------------------------
(* Python values *)

None == [t |-> "none"]

PyInt(n) == [t |-> "int", v |-> n]

PyFloat(x) == [t |-> "float", v |-> x]

PyStr(s) == [t |-> "str", s |-> s]

\* bool(x)
Truthy(x) ==
  CASE x.t = "none" -> FALSE
    [] x.t = "str" -> Len(x.s) > 0
    [] OTHER -> x.v # 0

\* the number x or 0 / x or 0.0
OrZero(x) == IF Truthy(x) THEN x.v ELSE 0

\* x or ""
OrEmpty(x) == IF Truthy(x) THEN x ELSE PyStr(<<>>)

LowerOf ==
  [c \in {"A", "D", "E", "G", "H", "I", "L", "N", "O", "P", "R", "T", "W"} |->
     CASE c = "A" -> "a" [] c = "D" -> "d" [] c = "E" -> "e" [] c = "G" -> "g"
       [] c = "H" -> "h" [] c = "I" -> "i" [] c = "L" -> "l" [] c = "N" -> "n"
       [] c = "O" -> "o" [] c = "P" -> "p" [] c = "R" -> "r" [] c = "T" -> "t"
       [] c = "W" -> "w"]

\* str.lower() over the alphabet of the model's texts
Lower(s) == [i \in 1..Len(s) |-> IF s[i] \in DOMAIN LowerOf THEN LowerOf[s[i]] ELSE s[i]]

\* sub in s
Contains(sub, s) ==
  \E i \in 0..(Len(s) - Len(sub)) : SubSeq(s, i + 1, i + Len(sub)) = sub

Returned(x) == [exc |-> "none", v |-> x]

Raised(e) == [exc |-> e, v |-> 0]

-----------------------------------------------------------------------------
(* src/app.py: helpers and heuristics *)

clamp(x, lo, hi) == Max(lo, Min(hi, x))

\* (value or "").lower(): a non-empty non-text value has no lower()
LowerText(value) ==
  LET x == OrEmpty(value)
  IN  IF x.t = "str" THEN Returned(Lower(x.s)) ELSE Raised("AttributeError")

\* region_adjustment with the "northern" rule tested before the others
region_adjustment_northern_first(region) ==
  LET low == LowerText(region)
      r == low.v
  IN  IF low.exc # "none" THEN low
      ELSE IF Contains(<<"n", "o", "r", "t", "h", "e", "r", "n">>, r) THEN Returned(-100)
      ELSE IF Contains(<<"g", "t", "a">>, r)
              \/ Contains(<<"t", "o", "r", "o", "n", "t", "o">>, r) THEN Returned(200)
      ELSE IF Contains(<<"o", "t", "t", "a", "w", "a">>, r)
              \/ Contains(<<"w", "a", "t", "e", "r", "l", "o", "o">>, r) THEN Returned(100)
      ELSE Returned(0)

region_adjustment(region) ==
  LET low == LowerText(region)
      r == low.v
  IN  IF low.exc # "none" THEN low
      ELSE IF Contains(<<"g", "t", "a">>, r)
              \/ Contains(<<"t", "o", "r", "o", "n", "t", "o">>, r) THEN Returned(200)
      ELSE IF Contains(<<"o", "t", "t", "a", "w", "a">>, r)
              \/ Contains(<<"w", "a", "t", "e", "r", "l", "o", "o">>, r) THEN Returned(100)
      ELSE IF Contains(<<"n", "o", "r", "t", "h", "e", "r", "n">>, r) THEN Returned(-100)
      ELSE Returned(0)

practice_adjustment(practice_type) ==
  LET low == LowerText(practice_type)
      pt == low.v
  IN  IF low.exc # "none" THEN low
      ELSE IF Contains(<<"o", "r", "t", "h">>, pt) THEN Returned(1500)
      ELSE IF Contains(<<"e", "n", "d", "o">>, pt) THEN Returned(1000)
      ELSE IF Contains(<<"o", "r", "a", "l">>, pt) THEN Returned(1000)
      ELSE IF Contains(<<"p", "e", "d", "o">>, pt) THEN Returned(500)
      ELSE IF Contains(<<"p", "e", "r", "i", "o">>, pt) THEN Returned(500)
      ELSE Returned(0)

\* infer_margin with the EBITDA path's clamp range on the hygiene path too
infer_margin_one_range(hygiene_pct, ebitda_margin_pct) ==
  IF Truthy(ebitda_margin_pct) /\ ebitda_margin_pct.v > 0
  THEN clamp(ebitda_margin_pct.v, 800, 3500)
  ELSE LET h == OrZero(hygiene_pct)
           base == 1600 + MulDiv(Max(0, h - 3000), 3500, BP)
       IN  clamp(base, 800, 3500)

\* infer_margin without the floor of the hygiene excess at 0
infer_margin_no_floor(hygiene_pct, ebitda_margin_pct) ==
  IF Truthy(ebitda_margin_pct) /\ ebitda_margin_pct.v > 0
  THEN clamp(ebitda_margin_pct.v, 800, 3500)
  ELSE LET h == OrZero(hygiene_pct)
           base == 1600 + MulDiv(h - 3000, 3500, BP)
       IN  clamp(base, 1200, 2800)

infer_margin(hygiene_pct, ebitda_margin_pct) ==
  IF Truthy(ebitda_margin_pct) /\ ebitda_margin_pct.v > 0
  THEN clamp(ebitda_margin_pct.v, 800, 3500)
  ELSE LET h == OrZero(hygiene_pct)
           base == 1600 + MulDiv(Max(0, h - 3000), 3500, BP)
       IN  clamp(base, 1200, 2800)

\* pick_income_weight with inclusive thresholds
pick_income_weight_inclusive(m) ==
  IF m <= 1200 THEN 3000
  ELSE IF m <= 1800 THEN 4000
  ELSE IF m <= 2400 THEN 5000
  ELSE 6000

pick_income_weight(m) ==
  IF m < 1200 THEN 3000
  ELSE IF m < 1800 THEN 4000
  ELSE IF m < 2400 THEN 5000
  ELSE 6000

-----------------------------------------------------------------------------
(* src/app.py: rails *)

\* round(num / den), den > 0: Python 3 rounds a tie to the even neighbour
RoundHalfEven(num, den) ==
  LET q == num \div den
      r == num - q * den
  IN  IF 2 * r < den THEN q
      ELSE IF 2 * r > den THEN q + 1
      ELSE IF q % 2 = 0 THEN q ELSE q + 1

goodwill_rail(c24, c25, region, practice_type) ==
  LET wr == MulDiv(3 * c25 + 2 * c24, 1, 5)
      province_factor == 9500
      ra == region_adjustment(region)
      pa == practice_adjustment(practice_type)
      adj == ra.v + pa.v
      goodwill == Max(MulDiv(MulDiv(wr, province_factor, BP), BP + adj, BP), 0)
  IN  IF ra.exc # "none" THEN ra
      ELSE IF pa.exc # "none" THEN pa
      ELSE Returned([weighted_revenue |-> wr, province_factor |-> province_factor,
                     adjustments |-> adj, goodwill |-> goodwill])

asset_rail_only(sqft, ops, equipped_ops) ==
  LET leaseholds_psf == 300 * Dollar
      remaining_life == 6857
      leaseholds == MulDiv(OrZero(sqft) * leaseholds_psf, remaining_life, BP)
      eq_ops == IF Truthy(equipped_ops) THEN equipped_ops.v
                ELSE RoundHalfEven(OrZero(ops) * 7, 10)
      equip_per_op == 40000 * Dollar
      equipment == Max(0, eq_ops) * equip_per_op
      supplies == IF OrZero(ops) > 0 THEN 35000 * Dollar ELSE 20000 * Dollar
      total_assets == Max(leaseholds + equipment + supplies, 0)
  IN  [leaseholds |-> leaseholds, equipment |-> equipment, supplies |-> supplies,
       assets_only |-> total_assets]

\* income_rail without the GTA override of the discount rate
income_discount_flat(region) == 2000

\* income_rail, line 112: the discount rate of the region
income_discount(region) ==
  LET r == Lower(OrEmpty(region).s)
  IN  IF Contains(<<"g", "t", "a">>, r)
         \/ Contains(<<"t", "o", "r", "o", "n", "t", "o">>, r) THEN 1800 ELSE 2000

\* income_rail, line 113
income_growth == 300

\* dcf_5y, line 74
g_term == 200

\* dcf_5y, line 70: range(1, 6)
dcf_years == 5

-----------------------------------------------------------------------------
(* src/valuation.py: the simple variant's pure helpers *)

weighted_revenue(c24, c25) == MulDiv(c25 * 3 + c24 * 2, 1, 5)

\* <<goodwill, base, adj_value>>
goodwill_from_weighted(wr, benchmark_pct, adjustment_pct, goodwill_pct) ==
  LET base == MulDiv(wr, benchmark_pct, BP)
      adj_value == MulDiv(base, BP + adjustment_pct, BP)
      goodwill == MulDiv(wr, goodwill_pct, BP)
  IN  <<goodwill, base, adj_value>>

-----------------------------------------------------------------------------
(* Control state *)

Pending == [exc |-> "pending", v |-> 0]

NoFrame == [fn |-> "none"]

NoLocals == [fn |-> "none"]

\* dcf_5y, line 69: pv, rev = 0.0, rev0
Dcf5yFrame(rev0, m, growth, discount) ==
  [fn |-> "dcf_5y", rev0 |-> rev0, margin |-> m, growth |-> growth,
   discount |-> discount, t |-> 0, rev |-> rev0, cf |-> 0, pv |-> 0]

\* simple_dcf, lines 40-41: pv = 0.0; collections = start_collections
SimpleDcfFrame(start, margin_pct, growth_pct, years, discount_rate, terminal_rev_pct) ==
  [fn |-> "simple_dcf", start_collections |-> start, margin_pct |-> margin_pct,
   growth_pct |-> growth_pct, years |-> years, discount_rate |-> discount_rate,
   terminal_rev_pct |-> terminal_rev_pct, t |-> 0, collections |-> start,
   ocf |-> 0, pv |-> 0]

-----------------------------------------------------------------------------
(* src/app.py: dcf_5y, one action per loop iteration and one for lines 74-78 *)

\* lines 70-73: one iteration of the loop
Dcf5yBody(f) ==
  LET t == f.t + 1
      rev == MulDiv(f.rev, BP + f.growth, BP)
      cf == MulDiv(rev, f.margin, BP)
      den == PowFx(BP + f.discount, t)
  IN  IF den = 0 THEN Raised("ZeroDivisionError")
      ELSE Returned([f EXCEPT !.t = t, !.rev = rev, !.cf = cf,
                              !.pv = f.pv + MulDiv(cf, BP, den)])

\* lines 74-78: the Gordon-growth terminal value and the floor
Dcf5yTail(f) ==
  LET cf5 == MulDiv(f.rev, f.margin, BP)
      tv == MulDiv(cf5, BP + g_term, f.discount - g_term)
      den == PowFx(BP + f.discount, dcf_years)
      pv == f.pv + MulDiv(tv, BP, den)
  IN  IF f.discount - g_term = 0 \/ den = 0 THEN Raised("ZeroDivisionError")
      ELSE Returned([cf5 |-> cf5, tv |-> tv, pv |-> pv, result |-> Max(pv, 0)])

Dcf5yLoop ==
  /\ pc = "dcf_5y"
  /\ frame.t < dcf_years
  /\ LET r == Dcf5yBody(frame)
     IN  IF r.exc = "none"
         THEN frame' = r.v /\ UNCHANGED <<pc, ret>>
         ELSE pc' = "raised" /\ ret' = r /\ UNCHANGED frame
  /\ UNCHANGED <<entry, args, loc>>

Dcf5yReturn ==
  /\ pc = "dcf_5y"
  /\ frame.t = dcf_years
  /\ LET r == Dcf5yTail(frame)
     IN  IF r.exc # "none"
         THEN pc' = "raised" /\ ret' = r /\ UNCHANGED <<frame, loc>>
         ELSE /\ frame' = [tv |-> r.v.tv, cf5 |-> r.v.cf5] @@ [frame EXCEPT !.pv = r.v.pv]
              /\ IF entry = "dcf_5y"
                 THEN pc' = "done" /\ ret' = Returned(r.v.result) /\ UNCHANGED loc
                 ELSE \* back in income_rail, lines 115-120, then compute_components
                      /\ pc' = "blend"
                      /\ loc' = [ir |-> [margin |-> frame.margin, growth |-> frame.growth,
                                         discount |-> frame.discount,
                                         dcf_value |-> r.v.result]] @@ loc
                      /\ UNCHANGED ret
  /\ UNCHANGED <<entry, args>>

-----------------------------------------------------------------------------
(* src/valuation.py: simple_dcf *)

\* lines 43-45: one iteration of the loop
SimpleDcfBody(f) ==
  LET t == f.t + 1
      ocf == MulDiv(f.collections, f.margin_pct, BP)
      den == PowFx(BP + f.discount_rate, t)
  IN  IF den = 0 THEN Raised("ZeroDivisionError")
      ELSE Returned([f EXCEPT !.t = t, !.ocf = ocf,
                              !.pv = f.pv + MulDiv(ocf, BP, den),
                              !.collections = MulDiv(f.collections, BP + f.growth_pct, BP)])

\* lines 46-48
SimpleDcfTail(f) ==
  LET terminal_value == MulDiv(f.collections, f.terminal_rev_pct, BP)
      den == PowFx(BP + f.discount_rate, f.years)
  IN  IF den = 0 THEN Raised("ZeroDivisionError")
      ELSE Returned([terminal_value |-> terminal_value,
                     pv |-> f.pv + MulDiv(terminal_value, BP, den)])

SimpleDcfLoop ==
  /\ pc = "simple_dcf"
  /\ frame.t < frame.years
  /\ LET r == SimpleDcfBody(frame)
     IN  IF r.exc = "none"
         THEN frame' = r.v /\ UNCHANGED <<pc, ret>>
         ELSE pc' = "raised" /\ ret' = r /\ UNCHANGED frame
  /\ UNCHANGED <<entry, args, loc>>

SimpleDcfReturn ==
  /\ pc = "simple_dcf"
  /\ frame.t >= frame.years
  /\ LET r == SimpleDcfTail(frame)
     IN  IF r.exc # "none"
         THEN pc' = "raised" /\ ret' = r /\ UNCHANGED <<frame, loc>>
         ELSE /\ frame' = [terminal_value |-> r.v.terminal_value]
                             @@ [frame EXCEPT !.pv = r.v.pv]
              /\ IF entry = "simple_dcf"
                 THEN pc' = "done" /\ ret' = Returned(r.v.pv) /\ UNCHANGED loc
                 ELSE \* back in compute, line 64
                      /\ pc' = "average"
                      /\ loc' = [dcf |-> r.v.pv] @@ loc
                      /\ UNCHANGED ret
  /\ UNCHANGED <<entry, args>>

-----------------------------------------------------------------------------
(* src/app.py: compute_components(req) *)

\* lines 130-133
CcPrepare ==
  /\ pc = "call" /\ entry = "compute_components"
  /\ loc' = [fn |-> "compute_components",
             c24 |-> Max(OrZero(args.collections_2024), 0),
             c25 |-> Max(OrZero(args.collections_2025), 0),
             margin |-> infer_margin(PyFloat(OrZero(args.hygiene_pct)),
                                     PyFloat(OrZero(args.ebitda_margin_pct)))]
  /\ pc' = "rails"
  /\ UNCHANGED <<entry, args, frame, ret>>

\* lines 135-136
CcRails ==
  /\ pc = "rails"
  /\ LET gw == goodwill_rail(loc.c24, loc.c25, OrEmpty(args.region),
                            OrEmpty(args.practice_type))
         ar == asset_rail_only(PyInt(OrZero(args.sqft)), PyInt(OrZero(args.ops)),
                               PyInt(OrZero(args.equipped_ops)))
     IN  IF gw.exc # "none"
         THEN pc' = "raised" /\ ret' = gw /\ UNCHANGED loc
         ELSE pc' = "income" /\ loc' = [gw |-> gw.v, ar |-> ar] @@ loc /\ UNCHANGED ret
  /\ UNCHANGED <<entry, args, frame>>

\* line 137, into income_rail lines 112-114: the call of dcf_5y
CcIncome ==
  /\ pc = "income"
  /\ frame' = Dcf5yFrame(loc.c25, loc.margin, income_growth,
                         income_discount(OrEmpty(args.region)))
  /\ pc' = "dcf_5y"
  /\ UNCHANGED <<entry, args, loc, ret>>

\* lines 140-141 and 151: the weights of the blend
blend_weights(m) ==
  LET w_income == pick_income_weight(m)
      w_assetgw == BP - w_income
  IN  [income |-> w_income, asset_plus_goodwill |-> w_assetgw]

\* lines 139-142
Blend(gw, ar, ir) ==
  LET asset_plus_goodwill == gw.goodwill + ar.assets_only
      w == blend_weights(ir.margin)
      final_val == MulDiv(ir.dcf_value, w.income, BP)
                   + MulDiv(asset_plus_goodwill, w.asset_plus_goodwill, BP)
  IN  [asset_plus_goodwill |-> asset_plus_goodwill, weights |-> w,
       final_value |-> final_val]

\* lines 139-154
CcBlend ==
  /\ pc = "blend"
  /\ ret' = Returned([inputs |-> args, goodwill |-> loc.gw, assets |-> loc.ar,
                      income |-> loc.ir, blending |-> Blend(loc.gw, loc.ar, loc.ir)])
  /\ pc' = "done"
  /\ UNCHANGED <<entry, args, loc, frame>>

-----------------------------------------------------------------------------
(* src/valuation.py: compute(inputs) *)

\* lines 52-71: the rails, then the call of simple_dcf
CompRails ==
  /\ pc = "call" /\ entry = "compute"
  /\ LET wr == weighted_revenue(args.collections_2024, args.collections_2025)
         g == goodwill_from_weighted(wr, args.benchmark_pct, args.adjustment_pct,
                                     args.goodwill_pct)
     IN  loc' = [fn |-> "compute", wr |-> wr, goodwill |-> g[1],
                 base_benchmark |-> g[2], adjusted_benchmark |-> g[3],
                 tangible |-> args.equipment_value + args.leasehold_value
                              + args.supplies_value]
  /\ frame' = SimpleDcfFrame(args.collections_2025, args.margin_pct, args.growth_pct,
                             args.years, args.discount_rate, args.terminal_rev_pct)
  /\ pc' = "simple_dcf"
  /\ UNCHANGED <<entry, args, ret>>

\* lines 74-86
CompFinal ==
  /\ pc = "average"
  /\ LET asset_total == loc.tangible + loc.goodwill
         final_value == MulDiv(loc.dcf + asset_total, 1, 2)
     IN  ret' = Returned([weighted_revenue |-> loc.wr, goodwill |-> loc.goodwill,
                          tangible_assets |-> loc.tangible, dcf_value |-> loc.dcf,
                          asset_value_total |-> asset_total,
                          final_value |-> final_value])
  /\ pc' = "done"
  /\ UNCHANGED <<entry, args, loc, frame>>

-----------------------------------------------------------------------------
(* Direct calls of the pure functions of src/app.py *)

CallRegionAdjustment ==
  /\ pc = "call" /\ entry = "region_adjustment"
  /\ ret' = region_adjustment(args.region)
  /\ pc' = IF ret'.exc = "none" THEN "done" ELSE "raised"
  /\ UNCHANGED <<entry, args, loc, frame>>

CallPracticeAdjustment ==
  /\ pc = "call" /\ entry = "practice_adjustment"
  /\ ret' = practice_adjustment(args.practice_type)
  /\ pc' = IF ret'.exc = "none" THEN "done" ELSE "raised"
  /\ UNCHANGED <<entry, args, loc, frame>>

CallInferMargin ==
  /\ pc = "call" /\ entry = "infer_margin"
  /\ ret' = Returned(infer_margin(args.hygiene_pct, args.ebitda_margin_pct))
  /\ pc' = "done"
  /\ UNCHANGED <<entry, args, loc, frame>>

CallBlendWeights ==
  /\ pc = "call" /\ entry = "pick_income_weight"
  /\ ret' = Returned(blend_weights(args.margin))
  /\ pc' = "done"
  /\ UNCHANGED <<entry, args, loc, frame>>

CallAssetRailOnly ==
  /\ pc = "call" /\ entry = "asset_rail_only"
  /\ ret' = Returned(asset_rail_only(args.sqft, args.ops, args.equipped_ops))
  /\ pc' = "done"
  /\ UNCHANGED <<entry, args, loc, frame>>

-----------------------------------------------------------------------------
(* Inputs *)

MaxOps == 15

MaxYears == 5

MaxHygienePct == 100

MaxEbitdaSteps == 80

GTA == <<"G", "T", "A">>

TORONTO == <<"T", "O", "R", "O", "N", "T", "O">>

Words ==
  { <<>>, <<"g", "t", "a">>, GTA, <<"T", "o", "r", "o", "n", "t", "o">>, TORONTO,
    <<"o", "t", "t", "a", "w", "a">>, <<"W", "a", "t", "e", "r", "l", "o", "o">>,
    <<"N", "O", "R", "T", "H", "E", "R", "N">>, <<"c", "l", "i", "n", "i", "c">>,
    <<"O", "r", "t", "h", "o">>, <<"e", "n", "d", "o">>, <<"O", "R", "A", "L">>,
    <<"P", "e", "d", "o">>, <<"p", "e", "r", "i", "o">>,
    <<"G", "e", "n", "e", "r", "a", "l">>, <<"r", "t", "h">> }

Texts == { a \o sep \o b : a \in Words, sep \in {<<>>, <<" ">>}, b \in Words }

\* what a caller can pass where text is expected
TextValues == {None, PyInt(0), PyInt(5), PyFloat(250)} \cup { PyStr(s) : s \in Texts }

HygieneValues ==
  {None, PyFloat(-1000), PyFloat(5 * BP)}
    \cup { PyFloat(100 * k) : k \in 0..MaxHygienePct }

EbitdaValues ==
  {None, PyFloat(-500), PyFloat(BP), PyFloat(799), PyFloat(801), PyFloat(1199),
   PyFloat(1201), PyFloat(3499), PyFloat(3501)}
    \cup { PyFloat(50 * k) : k \in 0..MaxEbitdaSteps }

OpsValues == {None} \cup { PyInt(n) : n \in -1..MaxOps }

SqftValues == {None, PyInt(-100), PyInt(0), PyInt(1), PyInt(2000)}

\* requests of compute_components: the fields of ValuationRequest, lines 21-30
Requests ==
  [collections_2024 : {PyFloat(-1000 * Dollar), PyFloat(900000 * Dollar)},
   collections_2025 : {PyFloat(0), PyFloat(1000000 * Dollar)},
   region : {None, PyStr(GTA), PyStr(TORONTO), PyStr(<<"o", "t", "t", "a", "w", "a">>)},
   practice_type : {PyStr(<<"G", "e", "n", "e", "r", "a", "l">>),
                    PyStr(<<"O", "r", "t", "h", "o">>)},
   ops : {PyInt(0), PyInt(6)},
   equipped_ops : {None, PyInt(0), PyInt(4)},
   sqft : {PyInt(-100), PyInt(0), PyInt(2000)},
   active_patients : {PyInt(0)},
   hygiene_pct : {None, PyFloat(-1000), PyFloat(3500), PyFloat(5000), PyFloat(5 * BP)},
   ebitda_margin_pct : {PyFloat(0), PyFloat(500), PyFloat(1199), PyFloat(1200),
                        PyFloat(2000)}]

\* inputs of compute: the fields of Inputs, lines 6-18
InputsValues ==
  [collections_2024 : {-1000 * Dollar, 0, 900000 * Dollar},
   collections_2025 : {0, 1000000 * Dollar},
   equipment_value : {-5000 * Dollar, 0, 160000 * Dollar},
   leasehold_value : {0, 411420 * Dollar},
   supplies_value : {0, 35000 * Dollar},
   benchmark_pct : {9500},
   adjustment_pct : {200},
   goodwill_pct : {9700},
   margin_pct : {2000},
   growth_pct : {500},
   years : 0..MaxYears,
   discount_rate : {2000},
   terminal_rev_pct : {8000}]

Dcf5yArgs ==
  [rev0 : {-100000 * Dollar, 0, 100000 * Dollar},
   margin : {800, 2000, 3500},
   growth : {0, 300, 500},
   discount : {-BP, 0, 100, 200, 300, 1800, 2000}]

SimpleDcfArgs ==
  [start_collections : {0, 100000 * Dollar},
   margin_pct : {1000, 2000},
   growth_pct : {0, 500},
   years : 0..MaxYears,
   discount_rate : {0, 2000},
   terminal_rev_pct : {0, 8000}]

-----------------------------------------------------------------------------
(* The engine: a request through compute_components, or inputs through compute *)

Init ==
  /\ \/ entry = "compute_components" /\ args \in Requests
     \/ entry = "compute" /\ args \in InputsValues
  /\ pc = "call"
  /\ loc = NoLocals
  /\ frame = NoFrame
  /\ ret = Pending

Next ==
  \/ CcPrepare \/ CcRails \/ CcIncome \/ Dcf5yLoop \/ Dcf5yReturn \/ CcBlend
  \/ CompRails \/ SimpleDcfLoop \/ SimpleDcfReturn \/ CompFinal

Spec == Init /\ [][Next]_vars

(* The two discounted-cash-flow functions called directly *)

InitDcf ==
  /\ \/ /\ entry = "dcf_5y" /\ args \in Dcf5yArgs
        /\ frame = Dcf5yFrame(args.rev0, args.margin, args.growth, args.discount)
     \/ /\ entry = "simple_dcf" /\ args \in SimpleDcfArgs
        /\ frame = SimpleDcfFrame(args.start_collections, args.margin_pct,
                                  args.growth_pct, args.years, args.discount_rate,
                                  args.terminal_rev_pct)
  /\ pc = entry
  /\ loc = NoLocals
  /\ ret = Pending

NextDcf == Dcf5yLoop \/ Dcf5yReturn \/ SimpleDcfLoop \/ SimpleDcfReturn

SpecDcf == InitDcf /\ [][NextDcf]_vars

(* The heuristics called directly *)

InitFn ==
  /\ \/ entry = "region_adjustment" /\ args \in [region : TextValues]
     \/ entry = "practice_adjustment" /\ args \in [practice_type : TextValues]
     \/ entry = "infer_margin"
          /\ args \in [hygiene_pct : HygieneValues, ebitda_margin_pct : EbitdaValues]
     \/ entry = "pick_income_weight" /\ args \in [margin : 0..BP]
     \/ entry = "asset_rail_only"
          /\ args \in [sqft : SqftValues, ops : OpsValues, equipped_ops : OpsValues]
  /\ pc = "call"
  /\ loc = NoLocals
  /\ frame = NoFrame
  /\ ret = Pending

NextFn ==
  \/ CallRegionAdjustment \/ CallPracticeAdjustment \/ CallInferMargin
  \/ CallBlendWeights \/ CallAssetRailOnly

SpecFn == InitFn /\ [][NextFn]_vars

-----------------------------------------------------------------------------
(* Properties *)

CcDone == entry = "compute_components" /\ pc = "done"

CompDone == entry = "compute" /\ pc = "done"

\* x limited to [lo, hi]
Limited(x, lo, hi) == IF x < lo THEN lo ELSE IF x > hi THEN hi ELSE x

\* whether the text value (None counts as empty) holds one of the keywords, in any case
Mentions(value, keys) ==
  /\ value.t = "str"
  /\ \E k \in keys : Contains(k, Lower(value.s))

\* C1: every monetary figure returned by compute_components (leaseholds,
\* equipment, supplies, assets_only, goodwill, dcf_value, asset_plus_goodwill,
\* final_value) and by compute (weighted_revenue, goodwill, tangible_assets,
\* dcf_value, asset_value_total, final_value) is >= 0, for every accepted input.
C1_FiguresNonNegative ==
  /\ CcDone =>
       /\ ret.v.assets.leaseholds >= 0
       /\ ret.v.assets.equipment >= 0
       /\ ret.v.assets.supplies >= 0
       /\ ret.v.assets.assets_only >= 0
       /\ ret.v.goodwill.goodwill >= 0
       /\ ret.v.income.dcf_value >= 0
       /\ ret.v.blending.asset_plus_goodwill >= 0
       /\ ret.v.blending.final_value >= 0
  /\ CompDone =>
       /\ ret.v.weighted_revenue >= 0
       /\ ret.v.goodwill >= 0
       /\ ret.v.tangible_assets >= 0
       /\ ret.v.dcf_value >= 0
       /\ ret.v.asset_value_total >= 0
       /\ ret.v.final_value >= 0

\* C2: dcf_5y called with a discount rate <= the terminal growth rate 0.02
\* never returns a value (it fails instead).
C2_DegenerateDiscountNeverReturns ==
  (entry = "dcf_5y" /\ args.discount <= g_term) => pc # "done"

\* C3: infer_margin returns the EBITDA fraction limited to [0.08, 0.35] when it
\* is positive, and otherwise 0.16 + max(0, hygiene - 0.30) * 0.35 limited to
\* [0.12, 0.28]; so the result is always in [0.08, 0.35], and in [0.12, 0.28]
\* when no positive EBITDA fraction is given.
C3_InferMargin ==
  (entry = "infer_margin" /\ pc = "done") =>
    LET e == IF args.ebitda_margin_pct.t = "none" THEN 0 ELSE args.ebitda_margin_pct.v
        h == IF args.hygiene_pct.t = "none" THEN 0 ELSE args.hygiene_pct.v
        excess == IF h > 3000 THEN h - 3000 ELSE 0
    IN  /\ e > 0 => ret.v = Limited(e, 800, 3500)
        /\ e <= 0 => /\ ret.v = Limited(1600 + (excess * 35) \div 100, 1200, 2800)
                      /\ ret.v \in 1200..2800
        /\ ret.v \in 800..3500

\* C3 witness: hygiene = 5.0 without EBITDA returns the upper bound 0.28
C3_Witness ==
  /\ entry = "infer_margin" /\ pc = "done"
  /\ args.hygiene_pct = PyFloat(5 * BP)
  /\ args.ebitda_margin_pct = PyFloat(0)
  /\ ret.v = 2800

\* C4: for every margin in [0, 1] the weights are {income: w, asset_plus_goodwill:
\* 1 - w} with w = 0.30 below 0.12, 0.40 below 0.18, 0.50 below 0.24 and 0.60
\* otherwise; both are strictly between 0 and 1 and they sum to 1.
C4_Weights ==
  (entry = "pick_income_weight" /\ pc = "done") =>
    LET m == args.margin
        w == CASE m \in 0..1199 -> 3000
               [] m \in 1200..1799 -> 4000
               [] m \in 1800..2399 -> 5000
               [] OTHER -> 6000
    IN  /\ ret.v.income = w
        /\ ret.v.asset_plus_goodwill = BP - w
        /\ ret.v.income > 0 /\ ret.v.income < BP
        /\ ret.v.asset_plus_goodwill > 0 /\ ret.v.asset_plus_goodwill < BP
        /\ ret.v.income + ret.v.asset_plus_goodwill = BP

\* C4 witness: the margin 0.12 itself is in the second tier
C4_Witness ==
  /\ entry = "pick_income_weight" /\ pc = "done"
  /\ args.margin = 1200
  /\ ret.v = [income |-> 4000, asset_plus_goodwill |-> 6000]

GtaKeys == { <<"g", "t", "a">>, <<"t", "o", "r", "o", "n", "t", "o">> }

\* the request names a GTA region and has positive collections, ops and sqft
C5_Case ==
  /\ Mentions(args.region, GtaKeys)
  /\ args.collections_2024.v > 0 /\ args.collections_2025.v > 0
  /\ args.ops.t = "int" /\ args.ops.v > 0
  /\ args.sqft.t = "int" /\ args.sqft.v > 0

\* C5: compute_components uses the discount rate 0.18 for a GTA/Toronto region
\* and 0.20 for any other; for a GTA/Toronto request with positive collections,
\* ops and sqft, goodwill = weighted_revenue * 0.95 * (1 + 0.02 + practiceAdj),
\* the three rail values are > 0, and
\* final_value = w_income * dcf_value + (1 - w_income) * (goodwill + assets_only).
C5_EndToEnd ==
  CcDone =>
    LET r == ret.v
        w == r.blending.weights.income
    IN  /\ r.income.discount = IF Mentions(args.region, GtaKeys) THEN 1800 ELSE 2000
        /\ C5_Case =>
             /\ r.goodwill.goodwill =
                  MulDiv(MulDiv(r.goodwill.weighted_revenue, 9500, BP),
                         BP + 200 + practice_adjustment(args.practice_type).v, BP)
             /\ r.income.dcf_value > 0
             /\ r.goodwill.goodwill > 0
             /\ r.assets.assets_only > 0
             /\ r.blending.final_value =
                  MulDiv(r.income.dcf_value, w, BP)
                  + MulDiv(r.goodwill.goodwill + r.assets.assets_only, BP - w, BP)

\* C5 witness: an upper-case "TORONTO" request with every rail positive
C5_Witness ==
  /\ CcDone /\ C5_Case
  /\ args.region = PyStr(TORONTO)
  /\ ret.v.income.discount = 1800
  /\ ret.v.blending.final_value > 0

\* C6: for non-negative integer sqft and ops, and equipped_ops a non-negative
\* integer or not given: leaseholds = sqft * 300 * 0.6857; equipment = E * 40000
\* with E the given equipped_ops, or round(ops * 0.7) when none is given;
\* supplies = 35000 if ops > 0 else 20000; assets_only is their sum.
C6_AssetRailAsStated ==
  ( /\ entry = "asset_rail_only" /\ pc = "done"
    /\ args.sqft.t = "int" /\ args.sqft.v >= 0
    /\ args.ops.t = "int" /\ args.ops.v >= 0
    /\ args.equipped_ops.t = "int" => args.equipped_ops.v >= 0 ) =>
    LET E == IF args.equipped_ops.t = "int" THEN args.equipped_ops.v
             ELSE RoundHalfEven(args.ops.v * 7, 10)
    IN  /\ ret.v.leaseholds = args.sqft.v * 20571
        /\ ret.v.equipment = E * 40000 * Dollar
        /\ ret.v.supplies = IF args.ops.v > 0 THEN 35000 * Dollar ELSE 20000 * Dollar
        /\ ret.v.assets_only = ret.v.leaseholds + ret.v.equipment + ret.v.supplies

RegionRules ==
  << [keys |-> GtaKeys, value |-> 200],
     [keys |-> { <<"o", "t", "t", "a", "w", "a">>,
                 <<"w", "a", "t", "e", "r", "l", "o", "o">> }, value |-> 100],
     [keys |-> { <<"n", "o", "r", "t", "h", "e", "r", "n">> }, value |-> -100] >>

PracticeRules ==
  << [keys |-> { <<"o", "r", "t", "h">> }, value |-> 1500],
     [keys |-> { <<"e", "n", "d", "o">> }, value |-> 1000],
     [keys |-> { <<"o", "r", "a", "l">> }, value |-> 1000],
     [keys |-> { <<"p", "e", "d", "o">> }, value |-> 500],
     [keys |-> { <<"p", "e", "r", "i", "o">> }, value |-> 500] >>

\* the value of the first rule matching the text, 0.0 when none does
FirstMatch(rules, value) ==
  LET hits == { i \in DOMAIN rules : Mentions(value, rules[i].keys) }
  IN  IF hits = {} THEN 0
      ELSE rules[CHOOSE i \in hits : \A j \in hits : i <= j].value

IsText(value) == value.t \in {"none", "str"}

\* C7: for absent or text input, region_adjustment and practice_adjustment return
\* the value of the first rule, in the fixed order, one of whose keywords is a
\* case-insensitive substring of the text, and 0.0 when there is none.
C7_FirstRuleWins ==
  /\ (entry = "region_adjustment" /\ IsText(args.region) /\ pc # "call") =>
       ret = Returned(FirstMatch(RegionRules, args.region))
  /\ (entry = "practice_adjustment" /\ IsText(args.practice_type) /\ pc # "call") =>
       ret = Returned(FirstMatch(PracticeRules, args.practice_type))

\* C7 witness: a text naming both "northern" and "GTA" gets the GTA value
C7_Witness ==
  /\ entry = "region_adjustment" /\ pc = "done"
  /\ Mentions(args.region, RegionRules[1].keys)
  /\ Mentions(args.region, RegionRules[3].keys)
  /\ ret.v = 200

\* C8: region_adjustment and practice_adjustment never raise, whatever the type
\* of the input.
C8_NeverRaises ==
  entry \in {"region_adjustment", "practice_adjustment"} => pc # "raised"

RECURSIVE Grow(_, _, _)
\* revenue r after k growth steps at rate g
Grow(r, g, k) == IF k = 0 THEN r ELSE MulDiv(Grow(r, g, k - 1), BP + g, BP)

\* C9: in dcf_5y and in simple_dcf the cash flow of period t is
\* margin * startRevenue * (1 + growthRate)^t, and the terminal value is taken
\* from the final-period revenue startRevenue * (1 + growthRate)^years.
C9_CashFlowOfGrownRevenue ==
  /\ (pc = "dcf_5y" /\ frame.t >= 1) =>
       frame.cf = MulDiv(Grow(frame.rev0, frame.growth, frame.t), frame.margin, BP)
  /\ (entry = "dcf_5y" /\ pc = "done") =>
       frame.cf5 = MulDiv(Grow(frame.rev0, frame.growth, dcf_years), frame.margin, BP)
  /\ (pc = "simple_dcf" /\ frame.t >= 1) =>
       frame.ocf = MulDiv(Grow(frame.start_collections, frame.growth_pct, frame.t),
                          frame.margin_pct, BP)
  /\ (entry = "simple_dcf" /\ pc = "done") =>
       frame.terminal_value =
         MulDiv(Grow(frame.start_collections, frame.growth_pct, frame.years),
                frame.terminal_rev_pct, BP)

\* C10: in compute_components, without a positive EBITDA fraction the margin is
\* in [0.16, 0.28] and the income weight is not 0.30; the income weight is 0.30
\* only for an EBITDA fraction in (0, 0.12).
C10_LowestTierOnlyByEbitda ==
  CcDone =>
    LET e == OrZero(args.ebitda_margin_pct)
        w == ret.v.blending.weights.income
    IN  /\ e <= 0 => ret.v.income.margin \in 1600..2800 /\ w # 3000
        /\ w = 3000 => e > 0 /\ e < 1200

\* C10 witness: an EBITDA fraction just under 0.12 gives the income weight 0.30
C10_Witness ==
  /\ CcDone
  /\ args.ebitda_margin_pct = PyFloat(1199)
  /\ ret.v.blending.weights.income = 3000

====
